---- MODULE Spec2Model ----
(***************************************************************************)
(* NukeRedshift (modules/package/nuke/database/redshift.py): one run of    *)
(* nuke(older_than_seconds, required_tags) against a Redshift client, and  *)
(* one run of nuke_clusters(time_delete, required_tags) on its own.        *)
(*                                                                         *)
(* The client is the environment: every call the code makes on it either   *)
(* returns, raises botocore's ClientError, or raises something else        *)
(* (EndpointConnectionError, a timeout, ...).  The four list_* generators  *)
(* are modelled as generators: they run up to their next yield, and then   *)
(* the body of the consuming for loop runs.  A page is fetched when the    *)
(* loop over paginator.paginate() asks for it.  The constructor's probe    *)
(* (describe_clusters, lines 16-24) is over when a run starts and is not   *)
(* part of the log.                                                        *)
(***************************************************************************)
EXTENDS Naturals, Sequences, FiniteSets

VARIABLES
    time_delete,    \* nuke's older_than_seconds / the handlers' time_delete
    required_tags,  \* [none |-> BOOLEAN, items |-> mapping key -> value]
    remote,         \* what the service lists: one sequence of resources per kind, and the clusters' tags
    page_size,      \* how many resources the service returns per page
    pc,             \* "nuke" (called), the handler being run, or "returned"
    raised,         \* an exception left nuke (or the handler called on its own)
    gen,            \* the running handler's generator: "running", "yielded" or "exhausted"
    page,           \* number of pages the generator has fetched
    pos,            \* index in the current page of the next resource to examine
    item,           \* the identifier the generator is suspended on (NoItem when none)
    log,            \* the client calls made so far, in order
    tag_failed,     \* the clusters whose tag lookup raised ClientError (caught in the tag check)
    first_caught,   \* index in log of the first delete call whose ClientError a handler caught (0: none)
    last_out        \* outcome of the last client call

vars == <<time_delete, required_tags, remote, page_size, pc, raised, gen, page, pos, item, log, tag_failed, first_caught, last_out>>

----------------------------------------------------------------------------
(* Bounds of the model. *)

\* longest listing of one resource kind
MaxItems == 2

----------------------------------------------------------------------------
(* Inputs. *)

NoItem == 0
None == "<None>"

Timestamps == {500, 1000, 1500}
Thresholds == {1000, 2000}
\* how many resources the service puts on a page
PageSizes == {1, 2}

Tag(k, v) == [Key |-> k, Value |-> v]

\* TaggedResources lists a cluster can carry (keys are unique within a resource)
TagLists ==
    { <<>>,
      <<Tag("env", "prod")>>,
      <<Tag("env", "dev")>>,
      <<Tag("team", "x"), Tag("env", "prod")>> }

\* values of the required_tags argument: None, {}, {"env": "prod"}, {"env": "prod", "team": "x"}
RequiredTagsChoices ==
    { [none |-> TRUE,  items |-> <<>>],
      [none |-> FALSE, items |-> <<>>],
      [none |-> FALSE, items |-> [k \in {"env"} |-> "prod"]],
      [none |-> FALSE, items |-> [k \in {"env", "team"} |-> IF k = "env" THEN "prod" ELSE "x"]] }

\* the required_tags a whole run of nuke is checked with: None and {"env": "prod"}
RunRequiredTags == { t \in RequiredTagsChoices : t.none \/ DOMAIN t.items = {"env"} }

SeqsUpTo(S, n) == UNION { [1..m -> S] : m \in 0..n }

----------------------------------------------------------------------------
(* The client. *)

DescribeCall(kind) ==
    CASE kind = "clusters"  -> "describe_clusters"
      [] kind = "snapshots" -> "describe_cluster_snapshots"
      [] kind = "subnets"   -> "describe_cluster_subnet_groups"
      [] kind = "params"    -> "describe_cluster_parameter_groups"

DeleteCall(kind) ==
    CASE kind = "clusters"  -> "delete_cluster"
      [] kind = "snapshots" -> "delete_cluster_snapshot"
      [] kind = "subnets"   -> "delete_cluster_subnet_group"
      [] kind = "params"    -> "delete_cluster_parameter_group"

TagsCall == "list_tags_for_resource"

\* outcomes of a client call
Outcomes == {"ok", "ClientError", "error"}

Listing(kind) ==
    CASE kind = "clusters"  -> remote.Clusters
      [] kind = "snapshots" -> remote.Snapshots
      [] kind = "subnets"   -> remote.ClusterSubnetGroups
      [] kind = "params"    -> remote.ParameterGroups

\* (mutant) one describe call, no pagination
FirstPageOnly(kind) == 1

\* paginator.paginate(): the listing in pages of page_size, at least one page
NumPages(kind) ==
    IF Len(Listing(kind)) = 0 THEN 1
    ELSE (Len(Listing(kind)) + page_size - 1) \div page_size

PageItems(kind, p) ==
    LET lo == IF p = 0 THEN 1 ELSE (p - 1) * page_size + 1
        hi == IF p * page_size < Len(Listing(kind)) THEN p * page_size ELSE Len(Listing(kind))
    IN  [i \in 1..(IF hi < lo THEN 0 ELSE hi - lo + 1) |-> Listing(kind)[lo + i - 1]]

Called(call, arg) == Append(log, [call |-> call, arg |-> arg])

----------------------------------------------------------------------------
(* The pure parts of the code. *)

\* (mutant) the age test with <= for <
IsOlderOrEqual(create_time, threshold) == create_time <= threshold

\* cluster["ClusterCreateTime"].timestamp() < time_delete, and the same test on a snapshot
IsOlder(create_time, threshold) == create_time < threshold

\* (mutant) `required_tags is not None` for the truth value
TruthyNotNone(tags) == ~tags.none

\* Python truth value of required_tags: None and {} are false
Truthy(tags) == ~tags.none /\ DOMAIN tags.items # {}

\* {tag["Key"]: tag["Value"] for tag in tags["TaggedResources"]}: the last entry of a key wins
tag_dict(tagged) ==
    [k \in {tagged[i].Key : i \in DOMAIN tagged} |->
        LET last == CHOOSE i \in DOMAIN tagged :
                        /\ tagged[i].Key = k
                        /\ \A j \in DOMAIN tagged : tagged[j].Key = k => j <= i
        IN  tagged[last].Value]

\* dict.get(key)
Get(d, key) == IF key \in DOMAIN d THEN d[key] ELSE None

\* (mutant) return True at the first required tag that matches
_cluster_has_any_required_tag(tagged, tags, out) ==
    IF out = "ok"
    THEN \E key \in DOMAIN tags.items : Get(tag_dict(tagged), key) = tags.items[key]
    ELSE FALSE

\* _cluster_has_required_tags, given how the list_tags_for_resource call ended
\* ("ok" or "ClientError"; any other exception leaves the function)
_cluster_has_required_tags(tagged, tags, out) ==
    IF out = "ok"
    THEN \A key \in DOMAIN tags.items : ~(Get(tag_dict(tagged), key) # tags.items[key])
    ELSE FALSE

\* the `continue` of list_clusters: the cluster is skipped
Skipped(tagged, tags, out) == Truthy(tags) /\ ~_cluster_has_required_tags(tagged, tags, out)

\* (mutant) no except clause
CaughtNothing(out) == FALSE

\* (mutant) a bare except
CaughtAll(out) == out # "ok"

\* except ClientError: the only exception the handlers and the tag check catch
Caught(out) == out = "ClientError"

\* (mutant) nuke_subnets called before nuke_snapshots
NextHandlerSwapped(h) ==
    CASE h = "nuke"              -> "nuke_clusters"
      [] h = "nuke_clusters"     -> "nuke_subnets"
      [] h = "nuke_subnets"      -> "nuke_snapshots"
      [] h = "nuke_snapshots"    -> "nuke_param_groups"
      [] h = "nuke_param_groups" -> "returned"

\* the order of the handler calls in nuke
NextHandler(h) ==
    CASE h = "nuke"              -> "nuke_clusters"
      [] h = "nuke_clusters"     -> "nuke_snapshots"
      [] h = "nuke_snapshots"    -> "nuke_subnets"
      [] h = "nuke_subnets"      -> "nuke_param_groups"
      [] h = "nuke_param_groups" -> "returned"

Handlers == {"nuke_clusters", "nuke_snapshots", "nuke_subnets", "nuke_param_groups"}

HandlerOf(kind) ==
    CASE kind = "clusters"  -> "nuke_clusters"
      [] kind = "snapshots" -> "nuke_snapshots"
      [] kind = "subnets"   -> "nuke_subnets"
      [] kind = "params"    -> "nuke_param_groups"

----------------------------------------------------------------------------
(* Generators. *)

\* calling list_*(): a new generator, nothing of its body has run yet
NewGenerator == gen' = "running" /\ page' = 0 /\ pos' = 1 /\ item' = NoItem /\ UNCHANGED raised

\* (mutant) the generator goes on without handing the identifier to the loop body
YieldNoSuspend(id) == gen' = "running" /\ item' = id /\ pos' = pos + 1 /\ UNCHANGED <<pc, raised, page>>

\* yield identifier: the generator is suspended, the consumer's loop body runs next
Yield(id) == gen' = "yielded" /\ item' = id /\ pos' = pos + 1 /\ UNCHANGED <<pc, raised, page>>

\* the inner loop goes on to the next resource of the page
Continue == pos' = pos + 1 /\ UNCHANGED <<pc, raised, gen, page, item>>

\* an exception nothing catches leaves the handler and nuke
Raise == raised' = TRUE /\ UNCHANGED <<pc, gen, page, pos, item>>

PageDone(kind) == page = 0 \/ pos > Len(PageItems(kind, page))

\* for page in paginator.paginate(): fetch the next page, or end the generator after the last
Paginate(kind) ==
    /\ PageDone(kind)
    /\ IF page < NumPages(kind)
       THEN \E out \in Outcomes :
              /\ log' = Called(DescribeCall(kind), page + 1)
              /\ last_out' = out
              /\ IF out = "ok"
                 THEN page' = page + 1 /\ pos' = 1 /\ UNCHANGED <<pc, raised, gen, item>>
                 ELSE Raise
       ELSE /\ gen' = "exhausted"
            /\ UNCHANGED <<pc, raised, page, pos, item, log, last_out>>
    /\ UNCHANGED <<tag_failed, first_caught>>

Current(kind) == PageItems(kind, page)[pos]

list_clusters ==
    /\ pc = "nuke_clusters" /\ ~raised /\ gen = "running"
    /\ \/ Paginate("clusters")
       \/ /\ ~PageDone("clusters")
          /\ LET cluster == Current("clusters")
                 id      == cluster.ClusterIdentifier
             IN  IF IsOlder(cluster.ClusterCreateTime, time_delete)
                 THEN IF Truthy(required_tags)
                      THEN \E out \in Outcomes :
                             /\ log' = Called(TagsCall, id)
                             /\ last_out' = out
                             /\ IF out = "ok" \/ Caught(out)
                                THEN /\ tag_failed' = IF out = "ok" THEN tag_failed ELSE tag_failed \cup {id}
                                     /\ IF Skipped(remote.Tags[id], required_tags, out)
                                        THEN Continue
                                        ELSE Yield(id)
                                ELSE Raise /\ UNCHANGED tag_failed
                             /\ UNCHANGED first_caught
                      ELSE Yield(id) /\ UNCHANGED <<log, tag_failed, first_caught, last_out>>
                 ELSE Continue /\ UNCHANGED <<log, tag_failed, first_caught, last_out>>
    /\ UNCHANGED <<time_delete, required_tags, remote, page_size>>

list_snapshots ==
    /\ pc = "nuke_snapshots" /\ ~raised /\ gen = "running"
    /\ \/ Paginate("snapshots")
       \/ /\ ~PageDone("snapshots")
          /\ LET snapshot == Current("snapshots")
             IN  IF IsOlder(snapshot.SnapshotCreateTime, time_delete)
                 THEN Yield(snapshot.SnapshotIdentifier)
                 ELSE Continue
          /\ UNCHANGED <<log, tag_failed, first_caught, last_out>>
    /\ UNCHANGED <<time_delete, required_tags, remote, page_size>>

list_subnet ==
    /\ pc = "nuke_subnets" /\ ~raised /\ gen = "running"
    /\ \/ Paginate("subnets")
       \/ /\ ~PageDone("subnets")
          /\ Yield(Current("subnets").ClusterSubnetGroupName)
          /\ UNCHANGED <<log, tag_failed, first_caught, last_out>>
    /\ UNCHANGED <<time_delete, required_tags, remote, page_size>>

list_cluster_params ==
    /\ pc = "nuke_param_groups" /\ ~raised /\ gen = "running"
    /\ \/ Paginate("params")
       \/ /\ ~PageDone("params")
          /\ Yield(Current("params").ParameterGroupName)
          /\ UNCHANGED <<log, tag_failed, first_caught, last_out>>
    /\ UNCHANGED <<time_delete, required_tags, remote, page_size>>

----------------------------------------------------------------------------
(* The handlers: the body of each for loop, run on the yielded identifier. *)

\* try: delete; print / except ClientError: nuke_exceptions(...), then the loop asks the
\* generator for the next identifier
Delete(kind) ==
    \E out \in Outcomes :
       /\ log' = Called(DeleteCall(kind), item)
       /\ last_out' = out
       /\ IF out = "ok" \/ Caught(out)
          THEN /\ first_caught' = IF out = "ok" \/ first_caught # 0 THEN first_caught ELSE Len(log')
               /\ gen' = "running" /\ item' = NoItem
               /\ UNCHANGED <<pc, raised, page, pos>>
          ELSE Raise /\ UNCHANGED first_caught
       /\ UNCHANGED tag_failed

nuke_clusters ==
    /\ pc = "nuke_clusters" /\ ~raised /\ gen = "yielded"
    /\ Delete("clusters")
    /\ UNCHANGED <<time_delete, required_tags, remote, page_size>>

nuke_snapshots ==
    /\ pc = "nuke_snapshots" /\ ~raised /\ gen = "yielded"
    /\ Delete("snapshots")
    /\ UNCHANGED <<time_delete, required_tags, remote, page_size>>

nuke_subnets ==
    /\ pc = "nuke_subnets" /\ ~raised /\ gen = "yielded"
    /\ Delete("subnets")
    /\ UNCHANGED <<time_delete, required_tags, remote, page_size>>

nuke_param_groups ==
    /\ pc = "nuke_param_groups" /\ ~raised /\ gen = "yielded"
    /\ Delete("params")
    /\ UNCHANGED <<time_delete, required_tags, remote, page_size>>

\* nuke: call the handlers one after the other; each call returns when its generator ends
nuke ==
    /\ ~raised
    /\ pc = "nuke" \/ (pc \in Handlers /\ gen = "exhausted")
    /\ pc' = NextHandler(pc)
    /\ IF pc' \in Handlers THEN NewGenerator ELSE UNCHANGED <<raised, gen, page, pos, item>>
    /\ UNCHANGED <<time_delete, required_tags, remote, page_size, log, tag_failed, first_caught, last_out>>

----------------------------------------------------------------------------
(* Initial states. *)

Clusters(cs) == [i \in DOMAIN cs |-> [ClusterIdentifier |-> i, ClusterCreateTime |-> cs[i].time]]

Snapshots(ss) == [i \in DOMAIN ss |-> [SnapshotIdentifier |-> i, SnapshotCreateTime |-> ss[i]]]

Remote(cs, ss, nsub, npar) ==
    [ Clusters            |-> Clusters(cs),
      Tags                |-> [i \in DOMAIN cs |-> cs[i].tags],
      Snapshots           |-> Snapshots(ss),
      ClusterSubnetGroups |-> [i \in 1..nsub |-> [ClusterSubnetGroupName |-> i]],
      ParameterGroups     |-> [i \in 1..npar |-> [ParameterGroupName |-> i]] ]

ClusterAttrs == [time : Timestamps, tags : TagLists]

\* the i-th resource of the account a whole run of nuke is checked on: creation times
\* 500, 1000, 1500, 500, ... and every other cluster tagged env=prod
CatalogTime(i) == CASE i % 3 = 1 -> 500 [] i % 3 = 2 -> 1000 [] OTHER -> 1500

CatalogCluster(i) ==
    [time |-> CatalogTime(i), tags |-> IF i % 2 = 1 THEN <<Tag("env", "prod")>> ELSE <<>>]

Fresh ==
    /\ raised = FALSE
    /\ gen = "running" /\ page = 0 /\ pos = 1 /\ item = NoItem
    /\ log = <<>> /\ tag_failed = {} /\ first_caught = 0 /\ last_out = "none"

\* nuke(older_than_seconds, required_tags) has been called on a constructed NukeRedshift
Init ==
    /\ time_delete \in Thresholds
    /\ required_tags \in RunRequiredTags
    /\ page_size \in PageSizes
    /\ \E ncl \in 0..MaxItems, nsn \in 0..MaxItems, nsub \in 0..MaxItems, npar \in 0..MaxItems :
         remote = Remote([i \in 1..ncl |-> CatalogCluster(i)], [i \in 1..nsn |-> CatalogTime(i)], nsub, npar)
    /\ pc = "nuke"
    /\ Fresh

Next ==
    \/ nuke
    \/ list_clusters
    \/ nuke_clusters
    \/ list_snapshots
    \/ nuke_snapshots
    \/ list_subnet
    \/ nuke_subnets
    \/ list_cluster_params
    \/ nuke_param_groups

Spec == Init /\ [][Next]_vars

\* nuke_clusters(time_delete, required_tags) has been called on its own
InitClusters ==
    /\ time_delete \in Thresholds
    /\ required_tags \in RequiredTagsChoices
    /\ page_size \in PageSizes
    /\ \E cs \in SeqsUpTo(ClusterAttrs, MaxItems) : remote = Remote(cs, <<>>, 0, 0)
    /\ pc = "nuke_clusters"
    /\ Fresh

NextClusters ==
    \/ list_clusters
    \/ nuke_clusters

SpecClusters == InitClusters /\ [][NextClusters]_vars

----------------------------------------------------------------------------
(* What a run has done, read from the log and the generator's position. *)

KindOfHandler(h) ==
    CASE h = "nuke_clusters"     -> "clusters"
      [] h = "nuke_snapshots"    -> "snapshots"
      [] h = "nuke_subnets"      -> "subnets"
      [] h = "nuke_param_groups" -> "params"

Rank(h) ==
    CASE h = "nuke"              -> 0
      [] h = "nuke_clusters"     -> 1
      [] h = "nuke_snapshots"    -> 2
      [] h = "nuke_subnets"      -> 3
      [] h = "nuke_param_groups" -> 4
      [] h = "returned"          -> 5

\* the handler a client call belongs to
HandlerOfCall(call) ==
    CASE call \in {"describe_clusters", "list_tags_for_resource", "delete_cluster"} -> "nuke_clusters"
      [] call \in {"describe_cluster_snapshots", "delete_cluster_snapshot"}         -> "nuke_snapshots"
      [] call \in {"describe_cluster_subnet_groups", "delete_cluster_subnet_group"} -> "nuke_subnets"
      [] OTHER                                                                       -> "nuke_param_groups"

IdOf(kind, r) ==
    CASE kind = "clusters"  -> r.ClusterIdentifier
      [] kind = "snapshots" -> r.SnapshotIdentifier
      [] kind = "subnets"   -> r.ClusterSubnetGroupName
      [] kind = "params"    -> r.ParameterGroupName

Ids(kind, rs) == [i \in DOMAIN rs |-> IdOf(kind, rs[i])]

\* the identifiers passed to the kind's delete call among the first n calls, in call order
AttemptsUpTo(kind, n) ==
    LET IsDelete(e) == e.call = DeleteCall(kind)
        ds == SelectSeq(SubSeq(log, 1, n), IsDelete)
    IN  [i \in DOMAIN ds |-> ds[i].arg]

Attempts(kind) == AttemptsUpTo(kind, Len(log))

Attempted(kind, id) == \E i \in DOMAIN log : log[i].call = DeleteCall(kind) /\ log[i].arg = id

\* the identifier a generator has yielded and the handler has not yet passed to delete
Pending(kind) ==
    IF pc = HandlerOf(kind) /\ gen = "yielded" /\ ~raised THEN <<item>> ELSE <<>>

Finished(kind) == Rank(pc) > Rank(HandlerOf(kind)) \/ (pc = HandlerOf(kind) /\ gen = "exhausted")

\* the resources of the kind its generator has gone past
Examined(kind) ==
    IF Finished(kind) THEN Listing(kind)
    ELSE IF pc = HandlerOf(kind) /\ page > 0
         THEN SubSeq(Listing(kind), 1, (page - 1) * page_size + pos - 1)
         ELSE <<>>

\* the tag lookup of the cluster raised ClientError
TagLookupFailed(id) == id \in tag_failed

TagLookupDone(id) == \E i \in DOMAIN log : log[i].call = TagsCall /\ log[i].arg = id

\* every required key is among the cluster's tags with the required value
AllRequiredPresent(id) ==
    \A key \in DOMAIN required_tags.items :
       \E i \in DOMAIN remote.Tags[id] :
          remote.Tags[id][i].Key = key /\ remote.Tags[id][i].Value = required_tags.items[key]

hasRequiredTags(id) == ~TagLookupFailed(id) /\ AllRequiredPresent(id)

RequiredTagsEmpty == required_tags.none \/ DOMAIN required_tags.items = {}

\* the resources a lister yields, by kind
Listed(kind, rs) ==
    LET OldCluster(c) ==
            /\ c.ClusterCreateTime < time_delete
            /\ RequiredTagsEmpty \/ hasRequiredTags(c.ClusterIdentifier)
        OldSnapshot(r) == r.SnapshotCreateTime < time_delete
    IN  CASE kind = "clusters"  -> Ids(kind, SelectSeq(rs, OldCluster))
          [] kind = "snapshots" -> Ids(kind, SelectSeq(rs, OldSnapshot))
          [] OTHER              -> Ids(kind, rs)

KindSet == {"clusters", "snapshots", "subnets", "params"}

\* the page numbers of the kind's describe calls, in call order
PagesFetched(kind) ==
    LET IsDescribe(e) == e.call = DescribeCall(kind)
        ds == SelectSeq(log, IsDescribe)
    IN  [i \in DOMAIN ds |-> ds[i].arg]

LastCall == log[Len(log)].call

DeleteCalls == {DeleteCall(k) : k \in KindSet}

DescribeCalls == {DescribeCall(k) : k \in KindSet}

----------------------------------------------------------------------------
(* The claims. *)

OneAttemptEach(kind) == Attempts(kind) \o Pending(kind) = Listed(kind, Examined(kind))

OlderClusters(rs) ==
    LET Old(c) == c.ClusterCreateTime < time_delete
    IN  Ids("clusters", SelectSeq(rs, Old))

\* C2 (as the spec states it): with non-empty required_tags, a cluster older than the
\* threshold whose tag lookup succeeded is passed to delete iff some required key is
\* missing from its tags or has another value, and is preserved iff all of them match.
C2_DeletedIffTagsDiffer ==
    (Finished("clusters") /\ ~raised /\ ~RequiredTagsEmpty) =>
        \A i \in DOMAIN remote.Clusters :
           LET c  == remote.Clusters[i]
               id == c.ClusterIdentifier
           IN  (c.ClusterCreateTime < time_delete /\ TagLookupDone(id) /\ ~TagLookupFailed(id))
                  => (Attempted("clusters", id) <=> ~AllRequiredPresent(id))

\* C3 (as the spec states it): with non-empty required_tags, an older cluster whose tag
\* lookup raised ClientError is passed to delete, and the run goes on to the next cluster.
C3_LookupFailureDeletes ==
    /\ (raised /\ log # <<>> /\ LastCall = TagsCall) => last_out # "ClientError"
    /\ (Finished("clusters") /\ ~raised /\ ~RequiredTagsEmpty) =>
          \A i \in DOMAIN remote.Clusters :
             LET c  == remote.Clusters[i]
                 id == c.ClusterIdentifier
             IN  (c.ClusterCreateTime < time_delete /\ TagLookupFailed(id))
                    => Attempted("clusters", id)

\* C4 (as the spec states it): a failure of the delete call of an item never keeps the
\* following items of the kind from being processed, whichever delete calls fail.
C4_AnyDeleteFailureIsolated == ~(raised /\ log # <<>> /\ LastCall \in DeleteCalls)

\* C4 (amended): a delete call that raises ClientError never ends the handler (only a delete
\* call that raises something else does), and for each of the four kinds every identifier
\* the lister has yielded gets exactly one delete call, in the order of the listing.
C4_ClientErrorIsolated ==
    /\ (raised /\ log # <<>> /\ LastCall \in DeleteCalls) => last_out = "error"
    /\ \A kind \in KindSet : OneAttemptEach(kind)

\* the first delete call whose ClientError was caught was one of the kind, and a later
\* identifier of the kind was passed to delete after it
FailedThenNext(kind) ==
    /\ first_caught # 0
    /\ log[first_caught].call = DeleteCall(kind)
    /\ \E j \in DOMAIN log : first_caught < j /\ log[j].call = DeleteCall(kind)

\* a finished run in which the delete call of the first cluster raised ClientError, the
\* second cluster was passed to delete all the same, and so were two resources of each of the
\* other kinds, the delete call of the last one raising ClientError as well
C4_Witness ==
    /\ pc = "returned"
    /\ FailedThenNext("clusters")
    /\ \A kind \in KindSet : Len(Attempts(kind)) >= 2
    /\ last_out = "ClientError"

C6_FixedOrder ==
    \A i \in DOMAIN log :
       /\ Rank(HandlerOfCall(log[i].call)) <= Rank(pc)
       /\ i > 1 => Rank(HandlerOfCall(log[i - 1].call)) <= Rank(HandlerOfCall(log[i].call))

\* a finished run that listed and deleted resources of all four kinds
C6_Witness ==
    /\ pc = "returned"
    /\ \A kind \in KindSet : Attempts(kind) # <<>>

\* C7 (as the spec states it): whichever call fails while a kind is handled, the handlers
\* of the kinds after it are still executed: a run never ends before the last handler.
C7_LaterKindsAlwaysRun == raised => pc = "nuke_param_groups"

\* C7 (amended): a delete call or tag lookup that raises ClientError does not end the
\* run, and a run that is not ended goes through all four handlers; a listing call that
\* fails, or a delete call or tag lookup that raises anything else, ends the run at once,
\* and no later handler is executed.
C7_OnlyCaughtFailuresIsolated ==
    /\ raised <=> (log # <<>> /\ (last_out = "error" \/ (LastCall \in DescribeCalls /\ last_out # "ok")))
    /\ raised => (HandlerOfCall(LastCall) = pc /\ ~ENABLED Next)
    /\ pc = "returned" =>
          \A kind \in KindSet : \E i \in DOMAIN log : log[i] = [call |-> DescribeCall(kind), arg |-> 1]
    /\ (~raised /\ pc # "returned") => ENABLED Next

\* a finished run in which a delete_cluster call raised ClientError and the three later
\* handlers still deleted resources
C7_Witness ==
    /\ pc = "returned"
    /\ first_caught # 0 /\ log[first_caught].call = "delete_cluster"
    /\ \A kind \in KindSet \ {"clusters"} : Attempts(kind) # <<>>

C10_LazySinglePass ==
    /\ \A kind \in KindSet :
          (log # <<>> /\ LastCall = DescribeCall(kind)) =>
             /\ AttemptsUpTo(kind, Len(log) - 1)
                   = Listed(kind, SubSeq(Listing(kind), 1, (log[Len(log)].arg - 1) * page_size))
             /\ Len(PagesFetched(kind)) = log[Len(log)].arg
    /\ (log # <<>> /\ LastCall = TagsCall) =>
          AttemptsUpTo("clusters", Len(log) - 1)
             = Listed("clusters", SubSeq(Listing("clusters"), 1, log[Len(log)].arg - 1))
    /\ (pc \in Handlers /\ gen = "running") =>
          Attempts(KindOfHandler(pc)) = Listed(KindOfHandler(pc), Examined(KindOfHandler(pc)))

\* the first cluster was deleted before the second page was fetched and before the second
\* cluster's tags were looked up
C10_Witness ==
    /\ Len(log) >= 5
    /\ log[1] = [call |-> "describe_clusters", arg |-> 1]
    /\ log[2] = [call |-> TagsCall, arg |-> 1]
    /\ log[3] = [call |-> "delete_cluster", arg |-> 1]
    /\ log[4] = [call |-> "describe_clusters", arg |-> 2]
    /\ log[5] = [call |-> TagsCall, arg |-> 2]

====
